---------------------------- MODULE Spec2Model ----------------------------
(***************************************************************************)
(* Model of the Kindle Beam native messaging host (src/host/beam-host.py). *)
(*                                                                         *)
(* Text is modelled as a sequence of symbols.  A symbol stands for a run   *)
(* of characters that the program never splits ("https://s" is a scheme    *)
(* and host, "<img" the start of an img tag, "src" an attribute name or    *)
(* the tail of one).  The HTML scanner, URL resolution and the regular     *)
(* expression substitution work on these sequences symbol by symbol, the   *)
(* way the code works on characters.                                       *)
(***************************************************************************)
EXTENDS Integers, Sequences, FiniteSets, TLC

\* ------------------------------------------------------------------------
\* Bounds of the model
\* ------------------------------------------------------------------------

\* Largest number of markup elements in a request's content.
MaxElems == 2
\* Largest number of units by which the input stream falls short of, or
\* runs past, the length its prefix declares.
MaxMissing == 1

\* ------------------------------------------------------------------------
\* Symbols
\* ------------------------------------------------------------------------

WS == " "
DQ == "\""
SQ == "'"
Quotes == {DQ, SQ}
TagOpens == {"<img", "<a"}
HttpPrefixes == {"http://s", "https://s"}
DataPrefix == "data:"
\* File extensions download_image keeps; any other becomes ".jpg".
KnownExts == {".jpg", ".jpeg", ".png", ".gif", ".webp", ".svg"}
ExtSymbols == KnownExts \cup {".bmp"}

None == <<"None">>

Min(a, b) == IF a < b THEN a ELSE b

StartsWith(s, prefixes) == Len(s) > 0 /\ s[1] \in prefixes

\* ------------------------------------------------------------------------
\* html.parser.HTMLParser, as far as ImageExtractor uses it
\* ------------------------------------------------------------------------

RECURSIVE SkipWs(_, _)
SkipWs(h, i) == IF i <= Len(h) /\ h[i] = WS THEN SkipWs(h, i + 1) ELSE i

\* First index j >= i with h[j] in stops, or Len(h) + 1.
RECURSIVE ScanTo(_, _, _)
ScanTo(h, i, stops) ==
    IF i > Len(h) \/ h[i] \in stops THEN i ELSE ScanTo(h, i + 1, stops)

\* The attributes of the tag whose attribute text starts at index i, in
\* order, each with its name, its value and the span from..to it takes in h
\* (name, "=", quotes and value).
RECURSIVE AttrsFrom(_, _)
AttrsFrom(h, i) ==
    LET j == SkipWs(h, i) IN
    IF j > Len(h) \/ h[j] = ">" THEN <<>>
    ELSE LET k == ScanTo(h, j, {WS, "=", ">"})
             name == SubSeq(h, j, k - 1)
             e == SkipWs(h, k)
         IN  IF k = j THEN AttrsFrom(h, j + 1)
             ELSE IF e <= Len(h) /\ h[e] = "="
             THEN LET v == SkipWs(h, e + 1) IN
                  IF v <= Len(h) /\ h[v] \in Quotes
                  THEN LET c == ScanTo(h, v + 1, {h[v]}) IN
                       <<[name |-> name, value |-> SubSeq(h, v + 1, c - 1),
                          from |-> j, to |-> Min(c, Len(h))]>>
                       \o AttrsFrom(h, c + 1)
                  ELSE LET c == ScanTo(h, v, {WS, ">"}) IN
                       <<[name |-> name, value |-> SubSeq(h, v, c - 1),
                          from |-> j, to |-> c - 1]>>
                       \o AttrsFrom(h, c)
             ELSE <<[name |-> name, value |-> <<>>, from |-> j, to |-> k - 1]>>
                  \o AttrsFrom(h, k)

\* dict(attrs).get(name, ""): the last attribute of that name wins.
RECURSIVE AttrGet(_, _)
AttrGet(attrs, name) ==
    IF attrs = <<>> THEN <<>>
    ELSE IF attrs[Len(attrs)].name = name THEN attrs[Len(attrs)].value
    ELSE AttrGet(SubSeq(attrs, 1, Len(attrs) - 1), name)

\* The raw src value of every img start tag of h, in document order.
RECURSIVE ImgSrcsFrom(_, _)
ImgSrcsFrom(h, i) ==
    IF i > Len(h) THEN <<>>
    ELSE IF h[i] = "<img"
         THEN <<AttrGet(AttrsFrom(h, i + 1), <<"src">>)>> \o ImgSrcsFrom(h, i + 1)
         ELSE ImgSrcsFrom(h, i + 1)

ImgSrcs(h) == ImgSrcsFrom(h, 1)

\* ------------------------------------------------------------------------
\* urllib.parse
\* ------------------------------------------------------------------------

\* Index of the last "/" of s, or 0.
RECURSIVE LastSlash(_, _)
LastSlash(s, i) == IF i = 0 THEN 0 ELSE IF s[i] = "/" THEN i ELSE LastSlash(s, i - 1)

\* urlparse(url).path: what follows scheme and host, up to the query.
UrlPath(url) == SubSeq(url, 2, ScanTo(url, 2, {"?"}) - 1)

\* urljoin(base, src) for a src without scheme.
urljoin(base, src) ==
    LET q == ScanTo(base, 1, {"?"})
        noQuery == SubSeq(base, 1, q - 1)
        slash == LastSlash(noQuery, Len(noQuery))
    IN  IF src = <<>> THEN base
        ELSE IF src[1] \in HttpPrefixes \cup {DataPrefix} THEN src
        ELSE IF src[1] = "/" THEN <<base[1]>> \o src
        ELSE IF src[1] = "?" THEN noQuery \o src
        ELSE IF slash = 0 THEN <<base[1], "/">> \o src
        ELSE SubSeq(noQuery, 1, slash) \o src

\* ResolveSrc without the last test of handle_starttag: whatever the src
\* resolves to is retained.
ResolveSrcAnyScheme(src, base_url) ==
    IF src # <<>> /\ ~StartsWith(src, {DataPrefix})
    THEN IF base_url # <<>> /\ ~StartsWith(src, HttpPrefixes)
         THEN urljoin(base_url, src) ELSE src
    ELSE None

\* ImageExtractor.handle_starttag for one img tag with raw src value src:
\* the URL appended to images, or None.
ResolveSrc(src, base_url) ==
    IF src # <<>> /\ ~StartsWith(src, {DataPrefix})
    THEN LET r == IF base_url # <<>> /\ ~StartsWith(src, HttpPrefixes)
                  THEN urljoin(base_url, src) ELSE src
         IN  IF StartsWith(r, HttpPrefixes) THEN r ELSE None
    ELSE None

RECURSIVE DropNone(_)
DropNone(s) ==
    IF s = <<>> THEN <<>>
    ELSE IF s[1] = None THEN DropNone(Tail(s)) ELSE <<s[1]>> \o DropNone(Tail(s))

\* extractor.images after extractor.feed(html_content).
ExtractImages(h, base_url) ==
    LET srcs == ImgSrcs(h) IN
    DropNone([i \in 1..Len(srcs) |-> ResolveSrc(srcs[i], base_url)])

\* ------------------------------------------------------------------------
\* The content a request can carry
\* ------------------------------------------------------------------------

UrlA == <<"https://s", "/", "a", ".png">>
UrlAQ == UrlA \o <<"?", "q">>
UrlB == <<"http://s", "/", "b">>
RelA == <<"/", "a", ".png">>
DataUri == <<DataPrefix, "x">>
BaseUrl == <<"https://s", "/", "p">>

\* Every URL the extractor can retain from the content below.
KnownUrls == <<UrlA, UrlAQ, UrlB>>

ImgQuoted(src) == <<"<img", WS, "src", "=", DQ>> \o src \o <<DQ, ">">>
ImgBare(src) == <<"<img", WS, "src", "=">> \o src \o <<">">>
ImgLazy(u) == <<"<img", WS, "data-", "src", "=", DQ>> \o u \o <<DQ, ">">>
Link(u) == <<"<a", WS, "href", "=", SQ>> \o u \o <<SQ, ">">>
Prose(u) == <<"text", WS, "src", "=">> \o u \o <<WS>>

Elements ==
    { ImgQuoted(UrlA), ImgQuoted(UrlAQ), ImgBare(UrlB), ImgQuoted(RelA),
      ImgQuoted(DataUri), ImgLazy(UrlA), Link(UrlA), Prose(UrlA) }

RECURSIVE Concat(_)
Concat(ss) == IF ss = <<>> THEN <<>> ELSE ss[1] \o Concat(Tail(ss))

\* Every content of at most MaxElems elements; the empty one included.
Contents ==
    { Concat(es) : es \in UNION { [1..n -> Elements] : n \in 0..MaxElems } }

\* ------------------------------------------------------------------------
\* download_image: the local filename
\* ------------------------------------------------------------------------

\* hashlib.md5(url).hexdigest()[:12]: one digest per URL, no two alike.
Md5Hex(url) ==
    LET i == CHOOSE n \in 1..Len(KnownUrls) : KnownUrls[n] = url
    IN  <<"md5-1", "md5-2", "md5-3">>[i]

\* os.path.splitext(parsed.path)[1].lower(), or ".jpg" when not recognised.
ExtOf(url) ==
    LET path == UrlPath(url)
        ext == IF path # <<>> /\ path[Len(path)] \in ExtSymbols
               THEN path[Len(path)] ELSE ""
    IN  IF ext \in KnownExts THEN ext ELSE ".jpg"

LocalName(url) == <<"img_", Md5Hex(url), ExtOf(url)>>

\* ------------------------------------------------------------------------
\* process_images: the substitution
\* ------------------------------------------------------------------------

\* Where the pattern  src\s*=\s*["']?<url>["']?  matched at index i ends,
\* or 0 when it does not match there.
MatchEnd(h, i, url) ==
    IF h[i] # "src" THEN 0
    ELSE LET j == SkipWs(h, i + 1) IN
         IF j > Len(h) \/ h[j] # "=" THEN 0
         ELSE LET k == SkipWs(h, j + 1)
                  u == IF k <= Len(h) /\ h[k] \in Quotes THEN k + 1 ELSE k
                  e == u + Len(url)
              IN  IF e - 1 <= Len(h) /\ SubSeq(h, u, e - 1) = url
                  THEN IF e <= Len(h) /\ h[e] \in Quotes THEN e ELSE e - 1
                  ELSE 0

\* re.sub(pattern, repl, h): leftmost matches, one after the other.
RECURSIVE ReSubFrom(_, _, _, _)
ReSubFrom(h, i, url, repl) ==
    IF i > Len(h) THEN <<>>
    ELSE LET e == MatchEnd(h, i, url) IN
         IF e > 0 THEN repl \o ReSubFrom(h, e + 1, url, repl)
         ELSE <<h[i]>> \o ReSubFrom(h, i + 1, url, repl)

ReSub(h, url, local_file) ==
    ReSubFrom(h, 1, url, <<"src", "=", DQ>> \o local_file \o <<DQ>>)

\* The loop over replacements.items(); keys is the dict's insertion order.
RECURSIVE ReplaceAll(_, _)
ReplaceAll(h, keys) ==
    IF keys = <<>> THEN h
    ELSE ReplaceAll(ReSub(h, keys[1], LocalName(keys[1])), Tail(keys))

\* ------------------------------------------------------------------------
\* The framing codec: reading
\* ------------------------------------------------------------------------

\* Size of the length prefix, in bytes.
PrefixBytes == 4

\* The encoded body is a sequence of units: braces, members, whitespace,
\* the literals null and 1, and "cut", the front part of a unit that the
\* stream ends in.
Tok(t, k, v) == [t |-> t, k |-> k, v |-> v]
LBrace == Tok("{", "", <<>>)
RBrace == Tok("}", "", <<>>)
Blank == Tok(" ", "", <<>>)
NullLit == Tok("null", "", <<>>)
OneLit == Tok("1", "", <<>>)
Cut == Tok("cut", "", <<>>)
Member(k, v) == Tok("member", k, v)
\* A member whose value is the literal true or false.
BoolMember(k, b) == Tok(IF b THEN "true" ELSE "false", k, <<>>)
MemberKinds == {"member", "true", "false"}

Title == <<"T">>
Untitled == <<"Untitled">>

\* Python values json.loads can return here.
\* A value has its kind and, for a dict, its items d: a function from the
\* keys to the values.
EmptyDict == [k \in {} |-> None]
PyNone == [kind |-> "None", d |-> EmptyDict]
PyInt == [kind |-> "int", d |-> EmptyDict]
PyDict(d) == [kind |-> "dict", d |-> d]

RECURSIVE StripBlanks(_)
StripBlanks(b) ==
    IF b = <<>> THEN <<>>
    ELSE IF b[1] = Blank THEN StripBlanks(Tail(b))
    ELSE <<b[1]>> \o StripBlanks(Tail(b))

\* The Python value of a member: a bool for a literal, else the string.
ValueOf(m) == IF m.t = "true" THEN TRUE ELSE IF m.t = "false" THEN FALSE ELSE m.v

\* The value of key k among the members ms: the last one wins; None if absent.
RECURSIVE Lookup(_, _)
Lookup(ms, k) ==
    IF ms = <<>> THEN None
    ELSE IF ms[Len(ms)].k = k THEN ValueOf(ms[Len(ms)])
    ELSE Lookup(SubSeq(ms, 1, Len(ms) - 1), k)

\* The dict of the members ms.
DictOf(ms) == [k \in { ms[i].k : i \in 1..Len(ms) } |-> Lookup(ms, k)]

\* json.loads(text): [ok |-> FALSE] stands for JSONDecodeError.
JsonLoads(text) ==
    LET b == StripBlanks(text)
        n == Len(b)
        ms == SubSeq(b, 2, n - 1)
    IN  IF b = <<NullLit>> THEN [ok |-> TRUE, value |-> PyNone]
        ELSE IF b = <<OneLit>> THEN [ok |-> TRUE, value |-> PyInt]
        ELSE IF n >= 2 /\ b[1] = LBrace /\ b[n] = RBrace
                /\ \A i \in 1..Len(ms) : ms[i].t \in MemberKinds
        THEN [ok |-> TRUE, value |-> PyDict(DictOf(ms))]
        ELSE [ok |-> FALSE, value |-> PyNone]

\* An exception: its class as the handlers of main tell classes apart,
\* and str(e).
Exc(type, text) == [type |-> type, text |-> text]
NoExc == Exc("none", <<>>)

\* read_message() on the stream in: what it raises (NoExc if nothing) and
\* what it returns.
read_message(in) ==
    LET raw_length == Min(PrefixBytes, in.hdr)
        got == SubSeq(in.body, 1, Min(in.declared, Len(in.body)))
        parsed == JsonLoads(got)
    IN  IF raw_length = 0 THEN [raised |-> NoExc, value |-> PyNone]
        ELSE IF raw_length < PrefixBytes
        THEN [raised |-> Exc("Exception", <<"unpack requires a buffer of 4 bytes">>),
              value |-> PyNone]
        ELSE IF ~parsed.ok
        THEN [raised |-> Exc("Exception", <<"Expecting value">>), value |-> PyNone]
        ELSE [raised |-> NoExc, value |-> parsed.value]

\* ------------------------------------------------------------------------
\* The input streams of the model
\* ------------------------------------------------------------------------

Stream(hdr, declared, body) == [hdr |-> hdr, declared |-> declared, body |-> body]

\* json.dumps of a request object, as the extension sends it.
Encode(t, c, u) ==
    <<LBrace>>
    \o (IF t = None THEN <<>> ELSE <<Member("title", t)>>)
    \o (IF c = None THEN <<>> ELSE <<Member("content", c)>>)
    \o (IF u = None THEN <<>> ELSE <<Member("url", u)>>)
    \o <<RBrace>>

WellFramed(body) == Stream(PrefixBytes, Len(body), body)

\* Every content, with and without a base URL, in a complete frame.
RequestStreams ==
    { WellFramed(Encode(None, c, u)) : c \in Contents, u \in {None, BaseUrl} }

\* Bodies sent with every framing: complete, cut short, over-declared.
SampleBodies ==
    { Encode(Title, ImgQuoted(UrlA), None),
      Encode(None, ImgQuoted(UrlA), None) \o <<Blank>>,
      Encode(None, None, None),
      Encode(Title, None, BaseUrl),
      Encode(None, <<>>, None),
      <<LBrace, Member("content", ImgBare(UrlB)), Cut>>,
      <<NullLit>>, <<OneLit>>, <<>> }

\* The declared lengths tried for a body of n units.
DeclaredFor(n) == { d \in 0..(n + MaxMissing) : d + MaxMissing >= n }

FramingStreams ==
    { Stream(PrefixBytes, sd[2], sd[1]) :
        sd \in UNION { {<<b, d>> : d \in DeclaredFor(Len(b))} : b \in SampleBodies } }

\* A stream that ends before or inside the length prefix carries nothing else.
ShortPrefixStreams == { Stream(h, 0, <<>>) : h \in 0..(PrefixBytes - 1) }

Streams == RequestStreams \cup FramingStreams \cup ShortPrefixStreams

\* ------------------------------------------------------------------------
\* Responses and error texts
\* ------------------------------------------------------------------------

\* Success with the error field of an error Response, left empty.
SuccessWithError == [success |-> TRUE, error |-> <<>>]

Success == [success |-> TRUE]
Error(error_msg) == [success |-> FALSE, error |-> error_msg]

\* struct.pack(">I", n): the four bytes of n, most significant first.
PackBigEndian(n) ==
    <<(n \div 16777216) % 256, (n \div 65536) % 256, (n \div 256) % 256, n % 256>>

\* struct.pack("@I", n) on a little-endian host: the four bytes of n, least
\* significant first.
Pack(n) ==
    <<n % 256, (n \div 256) % 256, (n \div 65536) % 256, (n \div 16777216) % 256>>

\* struct.unpack("@I", raw)[0] on the same host.
Unpack(raw) == raw[1] + 256 * raw[2] + 65536 * raw[3] + 16777216 * raw[4]

\* json.dumps(message) for a Response: its items in insertion order,
\* success first.
Dumps(m) ==
    <<LBrace>>
    \o (IF "success" \in DOMAIN m THEN <<BoolMember("success", m.success)>> ELSE <<>>)
    \o (IF "error" \in DOMAIN m THEN <<Member("error", m.error)>> ELSE <<>>)
    \o <<RBrace>>

\* The bytes send_message writes for m: the packed length of the encoded
\* body, then the body.
Frame(m) == [prefix |-> Pack(Len(Dumps(m))), body |-> Dumps(m)]

\* The frames of the messages ms, one after the other.
Frames(ms) == [i \in 1..Len(ms) |-> Frame(ms[i])]

\* The bytes fr as an input stream: read_message line 32 reads the prefix,
\* line 35 unpacks it.
AsStream(fr) == Stream(Len(fr.prefix), Unpack(fr.prefix), fr.body)

NoMessageText == <<"No message received">>
NoContentText == <<"No content provided">>
ConfigMissingText ==
    <<"Config file not found: ~/.config/kindle-beam/config.json",
      "Create it with: smtp_user, smtp_pass, kindle_email">>
TimedOutText == <<"pandoc timed out - article may be too large">>
AuthFailedText == <<"SMTP authentication failed - check your App Password">>

\* HandlerMessage without the clause for subprocess.TimeoutExpired.
HandlerMessageNoTimeout(e) ==
    CASE e.type = "FileNotFoundError" -> Error(e.text)
      [] e.type = "SMTPAuthenticationError" -> Error(AuthFailedText)
      [] e.type = "SMTPException" -> Error(<<"Email failed: ">> \o e.text)
      [] OTHER -> Error(<<"Unexpected error: ">> \o e.text)

\* HandlerMessage with a catch-all clause that does not put str(e) into
\* the message.
HandlerMessageNoDetail(e) ==
    CASE e.type = "FileNotFoundError" -> Error(e.text)
      [] e.type = "TimeoutExpired" -> Error(TimedOutText)
      [] e.type = "SMTPAuthenticationError" -> Error(AuthFailedText)
      [] e.type = "SMTPException" -> Error(<<"Email failed: ">> \o e.text)
      [] OTHER -> Error(<<"Unexpected error">>)

\* HandlerMessage with the clause for SMTPException ahead of the clause
\* for its subclass SMTPAuthenticationError, which it then shadows.
HandlerMessageSmtpFirst(e) ==
    CASE e.type = "FileNotFoundError" -> Error(e.text)
      [] e.type = "TimeoutExpired" -> Error(TimedOutText)
      [] e.type \in {"SMTPException", "SMTPAuthenticationError"} ->
           Error(<<"Email failed: ">> \o e.text)
      [] OTHER -> Error(<<"Unexpected error: ">> \o e.text)

\* The message the except clauses of main send for the exception e.
HandlerMessage(e) ==
    CASE e.type = "FileNotFoundError" -> Error(e.text)
      [] e.type = "TimeoutExpired" -> Error(TimedOutText)
      [] e.type = "SMTPAuthenticationError" -> Error(AuthFailedText)
      [] e.type = "SMTPException" -> Error(<<"Email failed: ">> \o e.text)
      [] OTHER -> Error(<<"Unexpected error: ">> \o e.text)

\* Whether the text has the word in it: which of the literal parts of the
\* program's messages contain it.
Contains(text, word) ==
    \E i \in 1..Len(text) :
        \/ word = "content" /\ text[i] = "No content provided"
        \/ word = "timed out" /\ text[i] = "pandoc timed out - article may be too large"
        \/ word = "message" /\ text[i] = "No message received"

\* ------------------------------------------------------------------------
\* State
\* ------------------------------------------------------------------------

VARIABLES
    stdin,          \* the input stream: prefix bytes, declared length, body
    pc,             \* where main is
    exc,            \* the last exception raised inside main's try block
    uncaught,       \* TRUE once an exception has left an except clause
    message,        \* what read_message returned
    title, content, url,    \* main's locals, None until set
    config,         \* "unloaded" or "loaded"
    temp_epub,      \* None, or the artifact path main chose
    temp_dir,       \* the workspace: "none", "exists" or "removed"
    mkdtemps,       \* number of workspaces created so far
    files,          \* names of the files in the workspace
    images,         \* extractor.images
    fetched,        \* the download_image calls so far: [url, ok]
    replacements,   \* keys of the replacements dict, in insertion order
    html,           \* html_with_local_images, None until computed
    artifact,       \* TRUE while a file exists at temp_epub
    converter,      \* "not_run", "exit0", "nonzero", "timeout", "notfound"
    delivery,       \* "not_attempted", "ok", "auth", "smtp", "oserror"
    attempts,       \* every message handed to send_message, in order
    outbuf,         \* frames written to stdout's buffer and not yet flushed
    output,         \* the messages whose frames reached the output channel
    wire            \* the bytes on the output channel, frame by frame

ctl == <<pc, exc, uncaught>>
locals == <<message, title, content, url, config, temp_epub>>
workspace == <<temp_dir, mkdtemps, files>>
imgs == <<images, fetched, replacements, html>>
tools == <<artifact, converter, delivery>>
io == <<attempts, outbuf, output, wire>>
vars == <<stdin, ctl, locals, workspace, imgs, tools, io>>

Init ==
    /\ stdin \in Streams
    /\ pc = "main"
    /\ exc = NoExc
    /\ uncaught = FALSE
    /\ message = PyNone
    /\ title = None /\ content = None /\ url = None
    /\ config = "unloaded"
    /\ temp_epub = None
    /\ temp_dir = "none"
    /\ mkdtemps = 0
    /\ files = {}
    /\ images = <<>>
    /\ fetched = <<>>
    /\ replacements = <<>>
    /\ html = None
    /\ artifact = FALSE
    /\ converter = "not_run"
    /\ delivery = "not_attempted"
    /\ attempts = <<>>
    /\ outbuf = <<>>
    /\ output = <<>>
    /\ wire = <<>>

\* ------------------------------------------------------------------------
\* The framing codec: writing
\* ------------------------------------------------------------------------

\* What a call of send_message can do: write and flush the frame ("ok");
\* raise with the frame left in stdout's buffer, so that the next flush
\* that succeeds carries it ("raise_kept"); raise with nothing buffered
\* ("raise_lost").
WriteOutcomes == {"ok", "raise_kept", "raise_lost"}

send_message(m, w) ==
    /\ attempts' = Append(attempts, m)
    /\ outbuf' = IF w = "ok" THEN <<>>
                 ELSE IF w = "raise_kept" THEN Append(outbuf, m)
                 ELSE outbuf
    /\ output' = IF w = "ok" THEN output \o outbuf \o <<m>> ELSE output
    /\ wire' = IF w = "ok" THEN wire \o Frames(outbuf \o <<m>>) ELSE wire

BrokenPipe == Exc("Exception", <<"[Errno 32] Broken pipe">>)

\* An exception e raised inside the try block of main.
Raise(e) == pc' = "except" /\ exc' = e /\ uncaught' = uncaught

\* send_error/send_success inside the try block, followed by return (or the
\* end of the block).
SendInTry(m, w) ==
    /\ send_message(m, w)
    /\ IF w = "ok"
       THEN pc' = "finally" /\ UNCHANGED <<exc, uncaught>>
       ELSE Raise(BrokenPipe)

\* ------------------------------------------------------------------------
\* main
\* ------------------------------------------------------------------------

\* not message
Falsy(m) ==
    \/ m.kind = "None"
    \/ m.kind = "dict" /\ DOMAIN m.d = {}

\* message.get(key, default)
Get(m, key, default) == IF key \in DOMAIN m.d THEN m.d[key] ELSE default

\* main, lines 243-255: read the message and validate it.
Receive ==
    /\ pc = "main"
    /\ LET r == read_message(stdin)
           m == r.value
       IN  /\ message' = m
           /\ IF r.raised # NoExc
              THEN Raise(r.raised) /\ UNCHANGED <<title, content, url, io>>
              ELSE IF Falsy(m)
              THEN /\ \E w \in WriteOutcomes : SendInTry(Error(NoMessageText), w)
                   /\ UNCHANGED <<title, content, url>>
              ELSE IF m.kind # "dict"
              THEN /\ Raise(Exc("Exception", <<"'int' object has no attribute 'get'">>))
                   /\ UNCHANGED <<title, content, url, io>>
              ELSE /\ title' = Get(m, "title", Untitled)
                   /\ content' = Get(m, "content", <<>>)
                   /\ url' = Get(m, "url", <<>>)
                   /\ IF Get(m, "content", <<>>) = <<>>
                      THEN \E w \in WriteOutcomes : SendInTry(Error(NoContentText), w)
                      ELSE pc' = "load_config" /\ UNCHANGED <<exc, uncaught, io>>
    /\ UNCHANGED <<stdin, config, temp_epub, workspace, imgs, tools>>

ConfigStates == {"ok", "absent", "invalid_json", "missing_keys"}

\* LoadConfig with line 261 ahead of line 258: the artifact path is chosen
\* before the config is loaded.
LoadConfigAfterMktemp ==
    /\ pc = "load_config"
    /\ temp_epub' = <<"kindle_beam_", ".epub">>
    /\ \E c \in ConfigStates :
         IF c = "ok" THEN config' = "loaded" /\ pc' = "create_epub"
                          /\ UNCHANGED <<exc, uncaught>>
         ELSE /\ UNCHANGED config
              /\ Raise(CASE c = "absent" -> Exc("FileNotFoundError", ConfigMissingText)
                         [] c = "invalid_json" -> Exc("Exception", <<"Expecting value">>)
                         [] OTHER -> Exc("Exception", <<"Missing config keys: ", "smtp_pass">>))
    /\ UNCHANGED <<stdin, message, title, content, url, workspace, imgs, tools, io>>

\* load_config, called at line 258, with the config file in state c.
LoadConfig ==
    /\ pc = "load_config"
    /\ \E c \in ConfigStates :
         IF c = "ok" THEN config' = "loaded" /\ pc' = "create_epub"
                          /\ UNCHANGED <<exc, uncaught>>
         ELSE /\ UNCHANGED config
              /\ Raise(CASE c = "absent" -> Exc("FileNotFoundError", ConfigMissingText)
                         [] c = "invalid_json" -> Exc("Exception", <<"Expecting value">>)
                         [] OTHER -> Exc("Exception", <<"Missing config keys: ", "smtp_pass">>))
    /\ UNCHANGED <<stdin, message, title, content, url, temp_epub, workspace, imgs,
                   tools, io>>

EpubPath == <<"kindle_beam_", ".epub">>

\* main line 261 and create_epub lines 153-157 up to the extractor: the
\* artifact path is chosen, the workspace created, the image URLs extracted.
\* mkdtemp can fail (made = FALSE), before the try block of create_epub.
EnterCreateEpub ==
    /\ pc = "create_epub"
    /\ temp_epub' = EpubPath
    /\ \E made \in BOOLEAN :
         IF made
         THEN /\ temp_dir' = "exists"
              /\ mkdtemps' = mkdtemps + 1
              /\ images' = ExtractImages(content, url)
              /\ pc' = "process_images"
              /\ UNCHANGED <<exc, uncaught>>
         ELSE /\ Raise(Exc("Exception", <<"[Errno 28] No space left on device">>))
              /\ UNCHANGED <<temp_dir, mkdtemps, images>>
    /\ UNCHANGED <<stdin, message, title, content, url, config, files, fetched,
                   replacements, html, tools, io>>

\* The replacements dict after replacements[img_url] = local_file.
DictSet(keys, k) ==
    IF \E i \in 1..Len(keys) : keys[i] = k THEN keys ELSE Append(keys, k)

\* DownloadImage with a download_image that returns the filename it derived
\* also when the download failed.
DownloadImageNameOnFailure ==
    /\ pc = "process_images"
    /\ Len(fetched) < Len(images)
    /\ LET img_url == images[Len(fetched) + 1] IN
       \E ok \in BOOLEAN :
         /\ fetched' = Append(fetched, [url |-> img_url, ok |-> ok])
         /\ files' = IF ok THEN files \cup {LocalName(img_url)} ELSE files
         /\ replacements' = DictSet(replacements, img_url)
    /\ UNCHANGED <<stdin, ctl, locals, temp_dir, mkdtemps, images, html, tools, io>>

\* One turn of the loop of process_images, lines 133-136: download_image
\* for the next URL either stores the file and returns its name (ok) or
\* catches its exception and returns None.
DownloadImage ==
    /\ pc = "process_images"
    /\ Len(fetched) < Len(images)
    /\ LET img_url == images[Len(fetched) + 1] IN
       \E ok \in BOOLEAN :
         /\ fetched' = Append(fetched, [url |-> img_url, ok |-> ok])
         /\ files' = IF ok THEN files \cup {LocalName(img_url)} ELSE files
         /\ replacements' = IF ok THEN DictSet(replacements, img_url) ELSE replacements
    /\ UNCHANGED <<stdin, ctl, locals, temp_dir, mkdtemps, images, html, tools, io>>

\* CleanupWorkspace as a statement before the return of create_epub
\* instead of a finally clause.
CleanupOnReturnOnly(raised) ==
    IF raised THEN UNCHANGED <<temp_dir, files>>
    ELSE temp_dir' = "removed" /\ files' = {}

\* create_epub without its finally clause.
CleanupNever(raised) == UNCHANGED <<temp_dir, files>>

\* The finally clause of create_epub, lines 201-203, entered on return
\* (raised = FALSE) or with an exception on its way out (raised = TRUE).
CleanupWorkspace(raised) ==
    /\ temp_dir' = "removed"
    /\ files' = {}

ArticleName == <<"article.html">>

\* process_images lines 139-148 and create_epub lines 160-175: the URLs
\* are replaced and the document written into the workspace.  The write can
\* fail (written = FALSE).
WriteArticle ==
    /\ pc = "process_images"
    /\ Len(fetched) = Len(images)
    /\ html' = ReplaceAll(content, replacements)
    /\ \E written \in BOOLEAN :
         IF written
         THEN /\ files' = files \cup {ArticleName}
              /\ pc' = "pandoc"
              /\ UNCHANGED <<exc, uncaught, temp_dir>>
         ELSE /\ CleanupWorkspace(TRUE)
              /\ Raise(Exc("Exception", <<"[Errno 28] No space left on device">>))
    /\ UNCHANGED <<stdin, locals, mkdtemps, images, fetched, replacements, tools, io>>

ConverterOutcomes == {"exit0", "nonzero", "timeout", "notfound"}

\* RunPandoc without the check of result.returncode: a converter that
\* exits with another status than 0 is taken to have succeeded.
RunPandocIgnoringStatus ==
    /\ pc = "pandoc"
    /\ \E o \in ConverterOutcomes, wrote \in BOOLEAN :
         /\ o = "exit0" => wrote
         /\ o = "notfound" => ~wrote
         /\ converter' = o
         /\ artifact' = wrote
         /\ CleanupWorkspace(o \notin {"exit0", "nonzero"})
         /\ CASE o \in {"exit0", "nonzero"} ->
                   pc' = "send_email" /\ UNCHANGED <<exc, uncaught>>
              [] o = "timeout" -> Raise(Exc("TimeoutExpired", <<"timed out after 60 seconds">>))
              [] OTHER ->
                   Raise(Exc("FileNotFoundError",
                             <<"[Errno 2] No such file or directory: 'pandoc'">>))
    /\ UNCHANGED <<stdin, locals, mkdtemps, imgs, delivery, io>>

\* create_epub lines 189-203: the converter runs; a converter that exits
\* with 0 has written the artifact, one that fails or is killed may have
\* written it, one that was not found has not.
RunPandoc ==
    /\ pc = "pandoc"
    /\ \E o \in ConverterOutcomes, wrote \in BOOLEAN :
         /\ o = "exit0" => wrote
         /\ o = "notfound" => ~wrote
         /\ converter' = o
         /\ artifact' = wrote
         /\ CleanupWorkspace(o # "exit0")
         /\ CASE o = "exit0" -> pc' = "send_email" /\ UNCHANGED <<exc, uncaught>>
              [] o = "nonzero" ->
                   Raise(Exc("Exception", <<"pandoc failed: ", "stderr">>))
              [] o = "timeout" -> Raise(Exc("TimeoutExpired", <<"timed out after 60 seconds">>))
              [] OTHER ->
                   Raise(Exc("FileNotFoundError",
                             <<"[Errno 2] No such file or directory: 'pandoc'">>))
    /\ UNCHANGED <<stdin, locals, mkdtemps, imgs, delivery, io>>

DeliveryOutcomes == {"ok", "auth", "smtp", "oserror"}

\* send_email, called at line 265.
SendEmail ==
    /\ pc = "send_email"
    /\ \E o \in DeliveryOutcomes :
         /\ delivery' = o
         /\ CASE o = "ok" -> pc' = "send_success" /\ UNCHANGED <<exc, uncaught>>
              [] o = "auth" ->
                   Raise(Exc("SMTPAuthenticationError", <<"(535, b'5.7.8 BadCredentials')">>))
              [] o = "smtp" -> Raise(Exc("SMTPException", <<"Connection unexpectedly closed">>))
              [] OTHER -> Raise(Exc("Exception", <<"[Errno 111] Connection refused">>))
    /\ UNCHANGED <<stdin, locals, workspace, imgs, artifact, converter, io>>

\* main line 268.
SendSuccess ==
    /\ pc = "send_success"
    /\ \E w \in WriteOutcomes : SendInTry(Success, w)
    /\ UNCHANGED <<stdin, locals, workspace, imgs, tools>>

\* The except clauses of main, lines 270-279.  An exception raised by
\* send_error here leaves main through the finally clause.
Except ==
    /\ pc = "except"
    /\ \E w \in WriteOutcomes :
         /\ send_message(HandlerMessage(exc), w)
         /\ uncaught' = (w # "ok")
    /\ pc' = "finally"
    /\ UNCHANGED <<stdin, exc, locals, workspace, imgs, tools>>

\* Finally with the removal at the end of the try block instead: it is
\* skipped when an exception was raised.
FinallyAfterTryOnly ==
    /\ pc = "finally"
    /\ artifact' = IF temp_epub # None /\ artifact /\ exc = NoExc THEN FALSE ELSE artifact
    /\ pc' = IF uncaught THEN "crashed" ELSE "done"
    /\ UNCHANGED <<stdin, exc, uncaught, locals, workspace, imgs, converter, delivery, io>>

\* The finally clause of main, lines 281-284.
Finally ==
    /\ pc = "finally"
    /\ artifact' = IF temp_epub # None /\ artifact THEN FALSE ELSE artifact
    /\ pc' = IF uncaught THEN "crashed" ELSE "done"
    /\ UNCHANGED <<stdin, exc, uncaught, locals, workspace, imgs, converter, delivery, io>>

Next ==
    \/ Receive
    \/ LoadConfig
    \/ EnterCreateEpub
    \/ DownloadImage
    \/ WriteArticle
    \/ RunPandoc
    \/ SendEmail
    \/ SendSuccess
    \/ Except
    \/ Finally

Spec == Init /\ [][Next]_vars

\* main has returned or has been left by an exception.
Ended == pc \in {"done", "crashed"}

\* ------------------------------------------------------------------------
\* Vocabulary of the properties
\* ------------------------------------------------------------------------

Range(s) == { s[i] : i \in 1..Len(s) }

\* The URLs download_image has returned a filename for so far.
Succeeded == { fetched[i].url : i \in { j \in 1..Len(fetched) : fetched[j].ok } }

\* The indexes of h taken by attributes named exactly src, in any tag.
SrcAttrPositions(h) ==
    UNION { UNION { a.from..a.to :
                      a \in { b \in Range(AttrsFrom(h, i + 1)) : b.name = <<"src">> } } :
            i \in { j \in 1..Len(h) : h[j] \in TagOpens } }

RECURSIVE Keep(_, _, _)
Keep(h, i, drop) ==
    IF i > Len(h) THEN <<>>
    ELSE IF i \in drop THEN Keep(h, i + 1, drop)
    ELSE <<h[i]>> \o Keep(h, i + 1, drop)

\* h without its src attributes: all the markup a rewrite of src
\* attributes has to leave alone.
OtherMarkup(h) == Keep(h, 1, SrcAttrPositions(h))

\* process_images has returned.
Rewritten == html # None

\* ------------------------------------------------------------------------
\* Workspace and artifact
\* ------------------------------------------------------------------------

\* C1: a run creates at most one workspace, and once main has ended, by
\* return or by an exception, on whatever path, the workspace does not
\* exist and holds no file.
WorkspaceGoneAtEnd ==
    /\ mkdtemps <= 1
    /\ Ended => temp_dir # "exists" /\ files = {}

\* A run has ended whose converter failed after images were fetched into
\* the workspace; the workspace is gone.
WorkspaceGoneAfterFailure ==
    /\ Ended
    /\ mkdtemps = 1
    /\ temp_dir = "removed"
    /\ converter = "nonzero"
    /\ Succeeded # {}

\* C2: when main ends no file exists at the artifact path, whatever the
\* converter and the delivery did; the finally clause of main raises
\* nothing and sends nothing, also when the artifact was never written.
ArtifactGoneAtEnd ==
    [][ /\ Ended' => ~artifact'
        /\ pc = "finally" =>
             /\ attempts' = attempts /\ outbuf' = outbuf /\ output' = output
             /\ wire' = wire
             /\ uncaught' = uncaught
             /\ Ended' ]_vars

\* A run has ended in which the converter wrote the artifact and delivery
\* failed; the artifact is gone.
ArtifactGoneAfterDeliveryFailure ==
    Ended /\ converter = "exit0" /\ delivery = "smtp" /\ ~artifact

\* ------------------------------------------------------------------------
\* Responses
\* ------------------------------------------------------------------------

\* C3: when main has ended, on whatever path and also when a write of a
\* Response failed, exactly one Response has reached the output channel.
ExactlyOneResponse == Ended => Len(output) = 1

\* The request is an object whose content is empty or absent, and main has
\* read it.
EmptyContentRead ==
    pc # "main" /\ message.kind = "dict" /\ Get(message, "content", <<>>) = <<>>

IsErrorAbout(r, word) ==
    /\ r.success = FALSE
    /\ "error" \in DOMAIN r
    /\ Contains(r.error, word)

\* C4: for a request whose content is empty or absent, the request object
\* without any field included, the Response main hands to the codec is an
\* error that mentions "content", and nothing else is done: no config is
\* loaded, no workspace created, no image fetched, no converter run, no
\* delivery attempted.
EmptyContentRejected ==
    EmptyContentRead =>
        /\ Len(attempts) >= 1
        /\ IsErrorAbout(attempts[1], "content")
        /\ config = "unloaded" /\ mkdtemps = 0 /\ fetched = <<>>
        /\ converter = "not_run" /\ delivery = "not_attempted"

\* C5: when the converter timed out, every Response of the run is an error
\* that mentions "timed out", there is exactly one of them once the handler
\* has run and it is on the channel when main returns; delivery is not
\* attempted, the workspace is removed at once and the artifact is gone when
\* main ends.
TimeoutReported ==
    converter = "timeout" =>
        /\ \A i \in 1..Len(attempts) : IsErrorAbout(attempts[i], "timed out")
        /\ \A i \in 1..Len(output) : IsErrorAbout(output[i], "timed out")
        /\ pc # "except" => Len(attempts) = 1
        /\ pc = "done" => Len(output) = 1
        /\ delivery = "not_attempted"
        /\ temp_dir = "removed" /\ files = {}
        /\ Ended => ~artifact

\* The converter timed out having written part of the artifact, and main
\* has returned after sending the error.
TimeoutRunDone ==
    /\ pc = "done"
    /\ converter = "timeout"
    /\ output = <<Error(TimedOutText)>>
    /\ Succeeded # {}

\* ------------------------------------------------------------------------
\* Images
\* ------------------------------------------------------------------------

\* C6: the URLs are fetched one by one in the order extracted, whatever
\* the outcome of the fetches before; the mapping holds exactly the URLs
\* with a successful fetch; no fetch failure raises, and once the workspace
\* exists the run leaves the image stage only with every URL fetched and the
\* HTML rewritten.
FetchFailuresAbsorbed ==
    /\ Len(fetched) <= Len(images)
    /\ \A i \in 1..Len(fetched) : fetched[i].url = images[i]
    /\ Range(replacements) = Succeeded
    /\ pc = "process_images" => exc = NoExc
    /\ temp_dir # "none" /\ pc # "process_images" =>
         Rewritten /\ Len(fetched) = Len(images)

\* The first of two fetches failed, the second succeeded, and the run is
\* at the converter.
SecondFetchedAfterFirstFailed ==
    /\ pc = "pandoc"
    /\ Len(fetched) = 2
    /\ ~fetched[1].ok /\ fetched[2].ok
    /\ replacements = <<fetched[2].url>>

\* C7: in the HTML process_images returns, every img element whose src
\* resolves (against the base URL, if relative) to a URL of the mapping has
\* exactly that URL's local filename as its src.
FetchedSrcReplaced ==
    Rewritten =>
        LET ins == ImgSrcs(content)
            outs == ImgSrcs(html)
        IN  /\ Len(outs) = Len(ins)
            /\ \A i \in 1..Len(ins) :
                 ResolveSrc(ins[i], url) \in Range(replacements) =>
                     outs[i] = LocalName(ResolveSrc(ins[i], url))

\* C8: in the HTML process_images returns, every img element whose src
\* does not resolve to a URL of the mapping has the src of the input.
UnfetchedSrcUntouched ==
    Rewritten =>
        LET ins == ImgSrcs(content)
            outs == ImgSrcs(html)
        IN  /\ Len(outs) = Len(ins)
            /\ \A i \in 1..Len(ins) :
                 ResolveSrc(ins[i], url) \notin Range(replacements) =>
                     outs[i] = ins[i]

\* C9: the rewrite changes src attributes only: the markup around them
\* (other attributes, whatever their names end in, and text) is in the
\* output as it is in the input.
OnlySrcAttributesChanged ==
    Rewritten => OtherMarkup(html) = OtherMarkup(content)

\* ------------------------------------------------------------------------
\* Framing
\* ------------------------------------------------------------------------

\* The stream ends before the body is as long as the prefix declares.
ShortBody == stdin.hdr = PrefixBytes /\ Len(stdin.body) < stdin.declared

\* C10: when the stream delivers fewer body bytes than the prefix declares,
\* read_message raises, nothing is returned as the message and none of it
\* is processed.
ShortBodyRejected ==
    ShortBody /\ pc # "main" =>
        /\ read_message(stdin).raised # NoExc
        /\ message = PyNone
        /\ title = None /\ content = None
        /\ config = "unloaded" /\ mkdtemps = 0

\* C11: every frame on the output channel, read back by read_message,
\* gives without error a dict equal to the Response it was written for, and
\* its prefix, unpacked, is the number of units of its body.
ResponseRoundTrip ==
    /\ Len(wire) = Len(output)
    /\ \A i \in 1..Len(wire) :
         LET r == read_message(AsStream(wire[i])) IN
         /\ Len(wire[i].prefix) = PrefixBytes
         /\ Unpack(wire[i].prefix) = Len(wire[i].body)
         /\ r.raised = NoExc
         /\ r.value.kind = "dict"
         /\ r.value.d = output[i]

\* A success Response and, behind it, an error Response are on the channel.
BothKindsOnWire ==
    /\ Len(wire) = 2
    /\ output[1] = Success
    /\ output[2].success = FALSE
    /\ wire[2].body[3] = Member("error", output[2].error)

\* ------------------------------------------------------------------------
\* Order of the stages
\* ------------------------------------------------------------------------

\* main has found the content of the request not to be empty.
Validated == content # None /\ content # <<>>

SuccessAttempted == \E i \in 1..Len(attempts) : attempts[i].success

\* C12: a success Response is handed to the codec only after delivery
\* returned without error, and then as the first Response; delivery is
\* attempted only after the converter exited with 0; the converter is run
\* only after every extracted image was tried and the HTML rewritten, with
\* the config loaded; and all of that only for a validated request.
SuccessOnlyAfterAllStages ==
    /\ SuccessAttempted => delivery = "ok" /\ attempts[1].success
    /\ delivery # "not_attempted" => converter = "exit0"
    /\ converter # "not_run" =>
         Rewritten /\ Len(fetched) = Len(images) /\ config = "loaded"
    /\ (Rewritten \/ config = "loaded" \/ mkdtemps > 0) => Validated

\* A run with a fetched image has gone through all stages and main has
\* returned with the success Response on the channel.
SuccessRunDone ==
    pc = "done" /\ output = <<Success>> /\ delivery = "ok" /\ Succeeded # {}

\* The converter's diagnostic output, as RunPandoc puts it into the
\* exception.
CarriesDiagnostic(r) ==
    /\ r.success = FALSE
    /\ "error" \in DOMAIN r
    /\ \E j \in 1..Len(r.error) : r.error[j] = "stderr"

\* C13: when the converter exited with another status than 0, every
\* Response of the run is an error carrying the converter's diagnostic
\* output, there is exactly one once the handler has run and it is on the
\* channel when main returns; delivery is not attempted, the workspace is
\* removed and the artifact is gone when main ends.
ConversionFailureReported ==
    converter = "nonzero" =>
        /\ \A i \in 1..Len(attempts) : CarriesDiagnostic(attempts[i])
        /\ pc # "except" => Len(attempts) = 1
        /\ pc = "done" => output = attempts
        /\ delivery = "not_attempted"
        /\ temp_dir = "removed" /\ files = {}
        /\ Ended => ~artifact

\* The converter failed having written part of the artifact, and main has
\* returned after sending the error.
ConversionFailureDone ==
    /\ pc = "done"
    /\ converter = "nonzero"
    /\ output = <<Error(<<"Unexpected error: ", "pandoc failed: ", "stderr">>)>>

\* C14: a delivery that fails on authentication and one that fails in
\* transport (an SMTP error or a socket error) each give one Response, an
\* error; the authentication failure has its own message, which no
\* transport failure gets; no success Response is attempted and the
\* artifact is gone when main ends.
DeliveryFailuresDistinct ==
    delivery \notin {"not_attempted", "ok"} =>
        /\ \A i \in 1..Len(attempts) : ~attempts[i].success
        /\ pc # "except" =>
             /\ Len(attempts) = 1
             /\ "error" \in DOMAIN attempts[1]
             /\ (attempts[1].error = AuthFailedText) <=> (delivery = "auth")
        /\ pc = "done" => output = attempts
        /\ Ended => ~artifact

\* Authentication failed and main has returned with its message on the
\* channel.
AuthFailureDone ==
    pc = "done" /\ delivery = "auth" /\ output = <<Error(AuthFailedText)>> /\ ~artifact

IsResponse(r) ==
    /\ DOMAIN r \subseteq {"success", "error"}
    /\ "success" \in DOMAIN r
    /\ r.success \in BOOLEAN
    /\ ("error" \in DOMAIN r) <=> (r.success = FALSE)

\* C15: every Response handed to the codec and every Response on the
\* channel has a boolean success field, and an error field exactly when
\* success is false.
ResponseShape ==
    /\ \A i \in 1..Len(attempts) : IsResponse(attempts[i])
    /\ \A i \in 1..Len(output) : IsResponse(output[i])

\* The write of the success Response failed, and the error Response sent
\* for that is on the channel.
SuccessThenErrorAttempted ==
    /\ Ended
    /\ Len(attempts) = 2
    /\ attempts[1] = Success
    /\ output = <<attempts[2]>>

\* ------------------------------------------------------------------------
\* Configuration
\* ------------------------------------------------------------------------

ConfigAbsent == Exc("FileNotFoundError", ConfigMissingText)
ConfigKeysMissing == Exc("Exception", <<"Missing config keys: ", "smtp_pass">>)

\* C16: when the config file is absent or lacks a key, the run yields an
\* error Response and is never left by an exception: once the handler has
\* run nothing is uncaught, the run ends normally, and the error is the one
\* Response on the channel.
ConfigFailureEndsNormally ==
    exc \in {ConfigAbsent, ConfigKeysMissing} =>
        /\ ~uncaught
        /\ pc # "crashed"
        /\ pc = "done" => Len(output) = 1 /\ ~output[1].success

\* C20: as long as the config is not loaded nothing of the request exists:
\* no artifact path, no workspace, no fetch, no converter run, no delivery,
\* which covers every run whose config failed; the config is consulted for
\* validated requests only, so a request with empty content is rejected
\* whatever the state of the config.
ConfigBeforeWorkspace ==
    /\ config = "unloaded" =>
         /\ temp_epub = None /\ mkdtemps = 0 /\ temp_dir = "none"
         /\ images = <<>> /\ fetched = <<>>
         /\ converter = "not_run" /\ delivery = "not_attempted" /\ ~artifact
    /\ (pc = "load_config" \/ config = "loaded") => Validated
    /\ EmptyContentRead =>
         /\ config = "unloaded"
         /\ pc \notin {"load_config", "create_epub"}
         /\ Len(attempts) >= 1 /\ ~attempts[1].success

\* A validated request whose config file is absent: main has returned
\* with the error, and nothing was created.
ConfigAbsentDone ==
    /\ pc = "done"
    /\ Validated
    /\ exc = ConfigAbsent
    /\ output = <<Error(ConfigMissingText)>>
    /\ temp_epub = None /\ mkdtemps = 0

\* ------------------------------------------------------------------------
\* Extraction
\* ------------------------------------------------------------------------

\* C17: no URL is fetched twice in a run.
EachUrlFetchedOnce ==
    \A i, j \in 1..Len(fetched) : i < j => fetched[i].url # fetched[j].url

\* The img elements of the content whose src is to be retained: not
\* empty, not inline data, and absolute http(s) or resolvable against a
\* base URL.
RetainedPositions ==
    LET srcs == ImgSrcs(content) IN
    { p \in 1..Len(srcs) :
        /\ srcs[p] # <<>>
        /\ srcs[p][1] # DataPrefix
        /\ srcs[p][1] \in HttpPrefixes \/ url # <<>> }

\* C18: every URL extracted and every URL handed to download_image starts
\* with http:// or https://; the URLs extracted are those of the img
\* elements with a src that is not empty, not inline data and not relative
\* without a base URL, one per such element, in document order.
OnlyHttpFetched ==
    /\ \A i \in 1..Len(images) : StartsWith(images[i], HttpPrefixes)
    /\ \A i \in 1..Len(fetched) : StartsWith(fetched[i].url, HttpPrefixes)
    /\ mkdtemps > 0 =>
         LET srcs == ImgSrcs(content) IN
         /\ Len(images) = Cardinality(RetainedPositions)
         /\ \E f \in [1..Len(images) -> RetainedPositions] :
              /\ \A a, b \in 1..Len(images) : a < b => f[a] < f[b]
              /\ \A k \in 1..Len(images) :
                   images[k] = IF srcs[f[k]][1] \in HttpPrefixes
                               THEN srcs[f[k]] ELSE urljoin(url, srcs[f[k]])

\* An absolute and, behind it, a relative src were extracted and fetched
\* in that order.
TwoFetchedInDocumentOrder ==
    /\ Len(fetched) = 2
    /\ fetched[1].url = UrlB /\ fetched[2].url = UrlA
    /\ ImgSrcs(content) = <<UrlB, RelA>>

\* ------------------------------------------------------------------------
\* Workspace and delivery
\* ------------------------------------------------------------------------

\* C19: the workspace exists only while create_epub runs: it is removed,
\* with every file in it, once the converter has run, so in every state in
\* which delivery is about to start, under way or over; a file at the
\* artifact path exists only after the converter has run.
WorkspaceGoneBeforeDelivery ==
    /\ temp_dir = "exists" => pc \in {"process_images", "pandoc"}
    /\ temp_dir # "exists" => files = {}
    /\ (converter # "not_run" \/ pc \in {"send_email", "send_success"}
        \/ delivery # "not_attempted") => temp_dir = "removed"
    /\ artifact => converter # "not_run"

\* Delivery is about to start: the artifact exists, the workspace that
\* held a fetched image does not.
ArtifactOnlyAtDelivery ==
    /\ pc = "send_email"
    /\ artifact
    /\ temp_dir = "removed" /\ files = {}
    /\ Succeeded # {}

=============================================================================
